---- MODULE Spec2Model ----
(***************************************************************************)
(* State-machine model of FlashbotsMEVExecutor (src/flashbots.ts), of its  *)
(* start-up and scan timer in src/index.ts, and of the chain client,       *)
(* signer and relay it awaits.  Every `await` of the                       *)
(* source is one step of the model: between two steps of one call the      *)
(* chain may advance and other calls may run, exactly as the JavaScript    *)
(* event loop allows.                                                      *)
(*                                                                         *)
(* Amounts are in gwei.  A fee field that the node reports as null is      *)
(* modelled as 0: the source's `x || default` treats null and 0n alike.    *)
(***************************************************************************)
EXTENDS Integers, Sequences, FiniteSets, TLC

\* ------------------------------------------------------------------ bounds
\* Largest pending block of the scan cycles that the timer callback starts.
CyclePending == 2
\* Largest pending block of the scan cycles that run next to a build.
FlowPending == 1
\* Largest number of ticks of the scan timer the model follows.
MaxTicks == 3
\* Highest chain height the model lets the chain reach.
MaxHeight == 2
\* Number of createSandwichBundle calls that may be in flight at once.
NumBuilds == 2
\* Largest number of transactions the node reports in the pending block.
MaxPending == 11

Builds == 1..NumBuilds

VARIABLES
  height,      \* chain client: current block height
  txCount,     \* chain client: getTransactionCount(wallet.address)
  build,       \* build[b]: the locals of the b-th createSandwichBundle call
  flashbotsProvider,  \* the executor's relay client: "unset" until initialised
  exec,        \* exec[b]: the locals of executeBundle on the bundle build b returned
  scan,        \* the locals of the scanMEVOpportunities call in progress
  stats,       \* the locals of the getBundleStats call in progress
  app          \* src/index.ts: flashbotsExecutor, its start-up and its scan timer

vars == <<height, txCount, build, flashbotsProvider, exec, scan, stats, app>>

\* --------------------------------------------------------------- constants
UniswapV2Router == "0x7a250d5630B4cF539739dF2C5dAcb4c659F2488D"

\* The values of the amountIn argument: a decimal string, or one parseEther rejects.
AmountIns == {"1.0", "abc"}

\* More values of amountIn, for the runs of a single build.
WideAmountIns == AmountIns \cup {"2.0"}

\* What getFeeData may answer, per field: 0 stands for null.
FeeDatas == { [maxFeePerGas |-> 0, maxPriorityFeePerGas |-> 0],
              [maxFeePerGas |-> 30, maxPriorityFeePerGas |-> 1] }

\* ethers.parseEther: decimal ether string to an amount; it throws on other text.
ParseEtherThrows(s) == s \notin {"1.0", "2.0"}

ParseEther(s) ==
  CASE s = "1.0" -> 1000000000
    [] s = "2.0" -> 2000000000
    [] OTHER -> 0

\* The `a || b` of the fee fields.
OrDefault(a, b) == IF a = 0 THEN b ELSE a

\* ------------------------------------------------------------ transactions
NoTx == [role |-> "none", to |-> "", maxFeePerGas |-> 0,
         maxPriorityFeePerGas |-> 0, value |-> 0, from |-> "", nonce |-> 0]

\* Mutant of FrontRunTx: the front-run commits no value.
FrontRunTxNoValue(gasPrice, amountIn, count) ==
  [role |-> "frontRun", to |-> UniswapV2Router,
   maxFeePerGas |-> OrDefault(gasPrice.maxFeePerGas, 50),
   maxPriorityFeePerGas |-> OrDefault(gasPrice.maxPriorityFeePerGas, 2),
   value |-> 0, from |-> "wallet", nonce |-> count]

\* The object literal createFrontRunTransaction returns.
FrontRunTx(gasPrice, amountIn, count) ==
  [role |-> "frontRun", to |-> UniswapV2Router,
   maxFeePerGas |-> OrDefault(gasPrice.maxFeePerGas, 50),
   maxPriorityFeePerGas |-> OrDefault(gasPrice.maxPriorityFeePerGas, 2),
   value |-> ParseEther(amountIn), from |-> "wallet", nonce |-> count]

\* The object literal createBackRunTransaction returns.
BackRunTx(gasPrice, count) ==
  [role |-> "backRun", to |-> UniswapV2Router,
   maxFeePerGas |-> OrDefault(gasPrice.maxFeePerGas, 50),
   maxPriorityFeePerGas |-> OrDefault(gasPrice.maxPriorityFeePerGas, 2),
   value |-> 0, from |-> "wallet", nonce |-> count + 1]

\* wallet.signTransaction: the signed payload of one intent.
SignTransaction(tx) == [signer |-> "wallet", tx |-> tx]

NoBundle == [kind |-> "none", transactions |-> <<>>, blockNumber |-> 0]

\* `return null` of the catch block.
NullBundle == [kind |-> "null", transactions |-> <<>>, blockNumber |-> 0]

\* Mutant of TargetBlockOf: the height itself, without the + 1.
TargetBlockCurrent(currentBlock) == currentBlock

\* The target block createSandwichBundle derives from the height it read.
TargetBlockOf(currentBlock) == currentBlock + 1

\* The BundleRequest createSandwichBundle returns.
BundleRequest(signedFrontRunTx, signedBackRunTx, currentBlock) ==
  [kind |-> "bundle",
   transactions |-> <<signedFrontRunTx, signedBackRunTx>>,
   blockNumber |-> TargetBlockOf(currentBlock)]

\* ------------------------------------------------------------------- build
\* The locals of one createSandwichBundle call.  heightRead, heightAtReturn,
\* overlapped and failedAt are history variables: the height getBlockNumber
\* answered in this call, the chain height at the step that returned, the calls
\* that were in flight at some moment of this call, and the step that threw;
\* frontFeeRead, backFeeRead, frontCountRead and backCountRead are what
\* getFeeData and getTransactionCount answered in this call (-1: not asked).
IdleBuild ==
  [pc |-> "idle", amountIn |-> "1.0",
   gasPrice |-> [maxFeePerGas |-> 0, maxPriorityFeePerGas |-> 0],
   frontRunTx |-> NoTx, backRunTx |-> NoTx, currentBlock |-> 0,
   signedFrontRunTx |-> SignTransaction(NoTx), result |-> NoBundle,
   heightRead |-> -1, heightAtReturn |-> -1, overlapped |-> {},
   failedAt |-> "none",
   frontFeeRead |-> [maxFeePerGas |-> -1, maxPriorityFeePerGas |-> -1],
   backFeeRead |-> [maxFeePerGas |-> -1, maxPriorityFeePerGas |-> -1],
   frontCountRead |-> -1, backCountRead |-> -1]

BuildAwaiting == {"frontFee", "frontNonce", "backFee", "backNonce",
                  "blockNumber", "signFront", "signBack"}

InFlight(b) == build[b].pc \in BuildAwaiting

\* Mutant of CatchBuild: a catch block that returns what was signed so far.
CatchBuildPartial(bd) ==
  [IdleBuild EXCEPT !.pc = "done", !.amountIn = bd.amountIn,
     !.result = [kind |-> "bundle",
                 transactions |-> IF bd.pc = "signBack"
                                  THEN <<bd.signedFrontRunTx>> ELSE <<>>,
                 blockNumber |-> TargetBlockOf(bd.currentBlock)],
     !.heightRead = bd.heightRead, !.heightAtReturn = height,
     !.overlapped = bd.overlapped]

\* The catch block of createSandwichBundle: log, return null.
CatchBuild(bd) ==
  [IdleBuild EXCEPT !.pc = "done", !.result = NullBundle, !.amountIn = bd.amountIn,
                    !.heightRead = bd.heightRead, !.heightAtReturn = height,
                    !.overlapped = bd.overlapped]

\* The return statement of createSandwichBundle (the call's other locals die).
ReturnBundle(bd, signedBackRunTx) ==
  [IdleBuild EXCEPT !.pc = "done", !.amountIn = bd.amountIn,
     !.result = BundleRequest(bd.signedFrontRunTx, signedBackRunTx, bd.currentBlock),
     !.heightRead = bd.heightRead, !.heightAtReturn = height,
     !.overlapped = bd.overlapped,
     !.frontFeeRead = bd.frontFeeRead, !.backFeeRead = bd.backFeeRead,
     !.frontCountRead = bd.frontCountRead, !.backCountRead = bd.backCountRead]

\* createSandwichBundle(targetTx, amountIn) is called: it calls
\* createFrontRunTransaction, which awaits getFeeData.
CallCreateSandwichBundle(b, amountIn) ==
  /\ build[b].pc \in {"idle", "done"}
  /\ build' = [c \in Builds |->
       IF c = b
       THEN [IdleBuild EXCEPT !.pc = "frontFee", !.amountIn = amountIn,
                              !.overlapped = {d \in Builds \ {b} : InFlight(d)}]
       ELSE IF InFlight(c)
            THEN [build[c] EXCEPT !.overlapped = @ \cup {b}]
            ELSE build[c]]
  /\ UNCHANGED <<height, txCount, flashbotsProvider, exec, scan, stats, app>>

\* getFeeData of createFrontRunTransaction answers; the object literal is then
\* evaluated up to its nonce field: parseEther(amountIn) may throw, otherwise
\* getTransactionCount is awaited.
FrontFeeData(b, fee) ==
  /\ build[b].pc = "frontFee"
  /\ build' = [build EXCEPT ![b] =
       IF ParseEtherThrows(build[b].amountIn)
       THEN [CatchBuild(build[b]) EXCEPT !.failedAt = "parseEther"]
       ELSE [build[b] EXCEPT !.pc = "frontNonce", !.gasPrice = fee,
                             !.frontFeeRead = fee]]
  /\ UNCHANGED <<height, txCount, flashbotsProvider, exec, scan, stats, app>>

\* getTransactionCount of createFrontRunTransaction answers; createSandwichBundle
\* resumes and calls createBackRunTransaction, which awaits getFeeData.
FrontNonce(b) ==
  /\ build[b].pc = "frontNonce"
  /\ build' = [build EXCEPT ![b] =
       [build[b] EXCEPT !.pc = "backFee",
          !.frontRunTx = FrontRunTx(build[b].gasPrice, build[b].amountIn, txCount),
          !.frontCountRead = txCount]]
  /\ UNCHANGED <<height, txCount, flashbotsProvider, exec, scan, stats, app>>

\* getFeeData of createBackRunTransaction answers; getTransactionCount is awaited.
BackFeeData(b, fee) ==
  /\ build[b].pc = "backFee"
  /\ build' = [build EXCEPT ![b] =
       [build[b] EXCEPT !.pc = "backNonce", !.gasPrice = fee,
                        !.backFeeRead = fee]]
  /\ UNCHANGED <<height, txCount, flashbotsProvider, exec, scan, stats, app>>

\* getTransactionCount of createBackRunTransaction answers; createSandwichBundle
\* resumes and awaits getBlockNumber.
BackNonce(b) ==
  /\ build[b].pc = "backNonce"
  /\ build' = [build EXCEPT ![b] =
       [build[b] EXCEPT !.pc = "blockNumber",
          !.backRunTx = BackRunTx(build[b].gasPrice, txCount),
          !.backCountRead = txCount]]
  /\ UNCHANGED <<height, txCount, flashbotsProvider, exec, scan, stats, app>>

\* getBlockNumber answers; signTransaction(frontRunTx) is awaited.
BuildBlockNumber(b) ==
  /\ build[b].pc = "blockNumber"
  /\ build' = [build EXCEPT ![b] =
       [build[b] EXCEPT !.pc = "signFront", !.currentBlock = height,
                        !.heightRead = height]]
  /\ UNCHANGED <<height, txCount, flashbotsProvider, exec, scan, stats, app>>

\* signTransaction(frontRunTx) answers; signTransaction(backRunTx) is awaited.
SignFront(b) ==
  /\ build[b].pc = "signFront"
  /\ build' = [build EXCEPT ![b] =
       [build[b] EXCEPT !.pc = "signBack",
          !.signedFrontRunTx = SignTransaction(build[b].frontRunTx)]]
  /\ UNCHANGED <<height, txCount, flashbotsProvider, exec, scan, stats, app>>

\* signTransaction(backRunTx) answers; the bundle is returned.
SignBack(b) ==
  /\ build[b].pc = "signBack"
  /\ build' = [build EXCEPT ![b] =
       ReturnBundle(build[b], SignTransaction(build[b].backRunTx))]
  /\ UNCHANGED <<height, txCount, flashbotsProvider, exec, scan, stats, app>>

\* The adapter call the build is awaiting rejects: control goes to the catch block.
BuildAdapterFails(b) ==
  /\ InFlight(b)
  /\ build' = [build EXCEPT ![b] =
       [CatchBuild(build[b]) EXCEPT !.failedAt = build[b].pc]]
  /\ UNCHANGED <<height, txCount, flashbotsProvider, exec, scan, stats, app>>

\* The adapter call the build is awaiting never settles: no answer and no
\* rejection will come.  The source sets no timer on its awaits, so the call
\* stays at that await.
BuildAdapterHangs(b) ==
  /\ InFlight(b)
  /\ build' = [build EXCEPT ![b] = [build[b] EXCEPT !.pc = "hung"]]
  /\ UNCHANGED <<height, txCount, flashbotsProvider, exec, scan, stats, app>>

\* ------------------------------------------------------------------- chain
\* A block is mined; it holds k transactions of the wallet (sent by any holder
\* of the key), so the wallet's transaction count grows by k.
NewBlock(k) ==
  /\ height < MaxHeight
  /\ height' = height + 1
  /\ txCount' = txCount + k
  /\ UNCHANGED <<build, flashbotsProvider, exec, scan, stats, app>>

\* ------------------------------------------------------------------- relay
\* What the relay has received for one bundle: nothing yet, or the arguments of
\* a sendBundle call.
NotSent == [sent |-> FALSE, transactions |-> <<>>, blockNumber |-> 0]

\* Mutant of SendBundle: a layer that hands the relay the list back to front.
SendBundleReversed(bundleRequest) ==
  [sent |-> TRUE,
   transactions |-> [i \in 1..Len(bundleRequest.transactions) |->
      bundleRequest.transactions[Len(bundleRequest.transactions) + 1 - i]],
   blockNumber |-> bundleRequest.blockNumber]

\* flashbotsProvider.sendBundle(bundleRequest.transactions, bundleRequest.blockNumber)
SendBundle(bundleRequest) ==
  [sent |-> TRUE, transactions |-> bundleRequest.transactions,
   blockNumber |-> bundleRequest.blockNumber]

\* The locals of one executeBundle call, and what the relay was handed by it.
\* History variables: heightAtCall and heightAtReturn are the chain height when
\* the call was made and when it returned; resent says the call handed the
\* relay a bundle that the call before it had already handed to the relay.
IdleExec ==
  [pc |-> "idle", bundleRequest |-> NoBundle, relay |-> NotSent,
   simulation |-> "none", result |-> "none", heightAtCall |-> -1,
   heightAtReturn |-> -1, resent |-> FALSE]

\* The catch block of executeBundle: log, return false.
CatchExec(ex) ==
  [ex EXCEPT !.pc = "done", !.result = "false", !.heightAtReturn = height]

\* Mutant of SimulationResult: firstRevert is not looked at.
SimulationResultAlwaysTrue(firstRevert) == "true"

\* What executeBundle returns once the simulation has answered.
SimulationResult(firstRevert) == IF firstRevert THEN "false" ELSE "true"

\* FlashbotsMEVExecutor.initializeFlashbots: FlashbotsBundleProvider.create
\* answers and the field is set, or it rejects and the field stays unset.
InitializeFlashbots(ok) ==
  /\ flashbotsProvider = "unset"
  /\ flashbotsProvider' = IF ok THEN "ready" ELSE "unset"
  /\ UNCHANGED <<height, txCount, build, exec, scan, stats, app>>

\* executeBundle(bundleRequest) is called with the bundle build b returned.  With
\* no relay client the member call throws at once; otherwise sendBundle is
\* invoked on the relay and awaited.
CallExecuteBundle(b) ==
  /\ build[b].pc = "done"
  /\ build[b].result.kind = "bundle"
  /\ exec[b].pc \in {"idle", "done"}
  /\ exec' = [exec EXCEPT ![b] =
       IF flashbotsProvider = "unset"
       THEN CatchExec([IdleExec EXCEPT !.bundleRequest = build[b].result,
                                       !.heightAtCall = height])
       ELSE [IdleExec EXCEPT !.pc = "sendBundle",
                             !.bundleRequest = build[b].result,
                             !.relay = SendBundle(build[b].result),
                             !.heightAtCall = height,
                             !.resent = /\ exec[b].relay.sent
                                        /\ exec[b].bundleRequest = build[b].result]]
  /\ UNCHANGED <<height, txCount, build, flashbotsProvider, scan, stats, app>>

\* sendBundle answers; bundle.simulate() is awaited.
SendBundleAnswers(b) ==
  /\ exec[b].pc = "sendBundle"
  /\ exec' = [exec EXCEPT ![b] = [exec[b] EXCEPT !.pc = "simulate"]]
  /\ UNCHANGED <<height, txCount, build, flashbotsProvider, scan, stats, app>>

\* simulate answers, with or without a firstRevert; executeBundle returns.
SimulateAnswers(b, firstRevert) ==
  /\ exec[b].pc = "simulate"
  /\ exec' = [exec EXCEPT ![b] =
       [exec[b] EXCEPT !.pc = "done",
          !.simulation = IF firstRevert THEN "revert" ELSE "ok",
          !.result = SimulationResult(firstRevert),
          !.heightAtReturn = height]]
  /\ UNCHANGED <<height, txCount, build, flashbotsProvider, scan, stats, app>>

\* simulate answers with the relay's error object, which has neither a
\* firstRevert nor totals: reading simulation.totalGasUsed.toString() for the
\* log throws, and control goes to the catch block.
SimulateAnswersError(b) ==
  /\ exec[b].pc = "simulate"
  /\ exec' = [exec EXCEPT ![b] = CatchExec([exec[b] EXCEPT !.simulation = "error"])]
  /\ UNCHANGED <<height, txCount, build, flashbotsProvider, scan, stats, app>>

\* The relay call executeBundle is awaiting rejects: control goes to the catch block.
ExecRelayFails(b) ==
  /\ exec[b].pc \in {"sendBundle", "simulate"}
  /\ exec' = [exec EXCEPT ![b] = CatchExec(exec[b])]
  /\ UNCHANGED <<height, txCount, build, flashbotsProvider, scan, stats, app>>

\* The relay call executeBundle is awaiting never settles; the source sets no
\* timer on it, so the call stays at that await.
ExecRelayHangs(b) ==
  /\ exec[b].pc \in {"sendBundle", "simulate"}
  /\ exec' = [exec EXCEPT ![b] = [exec[b] EXCEPT !.pc = "hung"]]
  /\ UNCHANGED <<height, txCount, build, flashbotsProvider, scan, stats, app>>

\* The lifecycle state the executor gives the bundle of pipeline b, read off the
\* only thing it reports: executeBundle returning true (sent and simulated
\* clean) or false.  Nothing in the executor reads the chain height for a sent
\* bundle, queries its statistics or withdraws it, so no other state exists.
BundleState(b) ==
  IF exec[b].pc # "done" THEN "Built"
  ELSE IF exec[b].result = "true" THEN "Submitted" ELSE "Discarded"

\* -------------------------------------------------------------------- scan
\* The number of pending transactions one cycle looks at: slice(0, 10).
ScanLimit == 10

UniswapV3Router == "0xE592427A0AEce92De3Edee1F18E0157C05861564"

\* A contract that is no configured router (the SushiSwap router).
OtherContract == "0xd9e1cE17f2641f24aE83637ab66a2cca9C378B9F"

\* The spellings of a recipient address the chain client may answer with: the
\* checksummed, the all-lower-case and the all-upper-case hex form.
Addresses ==
  { UniswapV2Router, "0x7a250d5630b4cf539739df2c5dacb4c659f2488d", "0x7A250D5630B4CF539739DF2C5DACB4C659F2488D",
    UniswapV3Router, "0xe592427a0aece92de3edee1f18e0157c05861564",
    OtherContract, "0xd9e1ce17f2641f24ae83637ab66a2cca9c378b9f" }

\* String.prototype.toLowerCase on the addresses above.
ToLowerCase(a) ==
  CASE a \in {UniswapV2Router, "0x7a250d5630b4cf539739df2c5dacb4c659f2488d", "0x7A250D5630B4CF539739DF2C5DACB4C659F2488D"} -> "0x7a250d5630b4cf539739df2c5dacb4c659f2488d"
    [] a \in {UniswapV3Router, "0xe592427a0aece92de3edee1f18e0157c05861564"} -> "0xe592427a0aece92de3edee1f18e0157c05861564"
    [] a \in {OtherContract, "0xd9e1ce17f2641f24ae83637ab66a2cca9c378b9f"} -> "0xd9e1ce17f2641f24ae83637ab66a2cca9c378b9f"

\* The contract an address string denotes, whatever its spelling.
ContractOf(a) ==
  CASE a \in {UniswapV2Router, "0x7a250d5630b4cf539739df2c5dacb4c659f2488d", "0x7A250D5630B4CF539739DF2C5DACB4C659F2488D"} -> "UniswapV2Router"
    [] a \in {UniswapV3Router, "0xe592427a0aece92de3edee1f18e0157c05861564"} -> "UniswapV3Router"
    [] a \in {OtherContract, "0xd9e1ce17f2641f24ae83637ab66a2cca9c378b9f"} -> "Other"

\* dexAddresses of analyzeTransaction: the two routers, lower-cased.
DexAddresses == {ToLowerCase(addr) : addr \in {UniswapV2Router, UniswapV3Router}}

\* Mutant of IsDexTransaction: the recipient compared as spelled.
IsDexTransactionCaseSensitive(tx) == tx.to \in DexAddresses

\* tx.to && dexAddresses.includes(tx.to.toLowerCase())
IsDexTransaction(tx) == ToLowerCase(tx.to) \in DexAddresses

\* What provider.getTransaction may answer: null, a transaction without a
\* recipient (a contract creation), or a transaction to some address.
NullTx == [found |-> FALSE, hasTo |-> FALSE, to |-> OtherContract]

TxDetails ==
  {NullTx, [found |-> TRUE, hasTo |-> FALSE, to |-> OtherContract]}
    \cup {[found |-> TRUE, hasTo |-> TRUE, to |-> a] : a \in Addresses}

\* What eth_getBlockByNumber("pending", true) may answer: null, an object
\* without a transaction list, or a block of n transactions, given as objects
\* or (by a node that ignores the flag) as hash strings.
PendingBlocks ==
  {[kind |-> k, n |-> 0] : k \in {"null", "noTransactions"}}
    \cup {[kind |-> k, n |-> n] : k \in {"objects", "hashes"}, n \in 0..MaxPending}

Min(a, b) == IF a <= b THEN a ELSE b

\* Mutant of Slice: the loop runs over the whole transaction list.
SliceAll(pendingBlock) == [i \in 1..pendingBlock.n |-> i]

\* pendingBlock.transactions.slice(0, 10): the hashes of the entries looped over.
Slice(pendingBlock) == [i \in 1..Min(pendingBlock.n, ScanLimit) |-> i]

\* Mutant of Opportunity: the height read is the target, without the + 1.
OpportunityAtHeight(blockNumber) ==
  [type |-> "sandwich", profit |-> "0.1", transactions |-> <<>>,
   targetBlock |-> blockNumber]

\* The MEVOpportunity analyzeTransaction returns for a router transaction.
Opportunity(blockNumber) ==
  [type |-> "sandwich", profit |-> "0.1", transactions |-> <<>>,
   targetBlock |-> blockNumber + 1]

\* The locals of one scanMEVOpportunities call and of the analyzeTransaction
\* call it is awaiting.  i is the loop position in the slice; tx is the answer
\* of getTransaction for entry i.  History variables: fetch (how the pending
\* block request ended), analysed (entries whose analysis has returned),
\* outcome, heightRead, heightFailed (how the latest analysis ended, the height
\* it read, whether its height request was rejected), matches (analyses that
\* returned an opportunity), skipped (some analysis threw), emittedAfterSkip,
\* logged (the timer callback awaiting the call has logged the returned list).
IdleScan ==
  [pc |-> "idle", pendingBlock |-> [kind |-> "null", n |-> 0], i |-> 0,
   opportunities |-> <<>>, tx |-> NullTx,
   fetch |-> "none", analysed |-> 0, outcome |-> "none", heightRead |-> -1,
   heightFailed |-> FALSE,
   matches |-> 0, skipped |-> FALSE, emittedAfterSkip |-> FALSE,
   logged |-> FALSE]

\* The catch block of scanMEVOpportunities: log; the opportunities pushed so
\* far are returned.
CatchScan(sc) == [sc EXCEPT !.pc = "done"]

\* analyzeTransaction has returned for entry i: the loop goes on to the next
\* entry of the slice, or the opportunities are returned.
NextEntry(sc) ==
  IF sc.i < Len(Slice(sc.pendingBlock))
  THEN [sc EXCEPT !.pc = "getTransaction", !.i = sc.i + 1, !.analysed = sc.analysed + 1]
  ELSE [sc EXCEPT !.pc = "done", !.analysed = sc.analysed + 1]

\* Mutant of CatchAnalyze: the error leaves analyzeTransaction and ends the loop.
CatchAnalyzeRethrow(sc) == CatchScan([sc EXCEPT !.outcome = "threw", !.skipped = TRUE])

\* The catch block of analyzeTransaction: log, return null.
CatchAnalyze(sc) == NextEntry([sc EXCEPT !.outcome = "threw", !.skipped = TRUE])

\* Mutant of FreshScan: the list is a field that outlives the call.
FreshScanKeepsList(sc) ==
  [IdleScan EXCEPT !.pc = "pendingBlock", !.opportunities = sc.opportunities]

\* The locals of a scanMEVOpportunities call as it awaits the pending block:
\* `const opportunities = []` and nothing from the call before (sc).
FreshScan(sc) == [IdleScan EXCEPT !.pc = "pendingBlock"]

\* scanMEVOpportunities() is called: the pending block is requested.
CallScanMEVOpportunities ==
  /\ scan.pc \in {"idle", "done"}
  /\ scan' = FreshScan(scan)
  /\ UNCHANGED <<height, txCount, build, flashbotsProvider, exec, stats, app>>

\* The pending block request answers.  Without a transaction list, with an
\* empty one or with hash strings only, nothing is awaited and the (empty)
\* list is returned; otherwise analyzeTransaction awaits getTransaction for
\* the first entry.
PendingBlockAnswers(pendingBlock) ==
  /\ scan.pc = "pendingBlock"
  /\ scan' =
       IF pendingBlock.kind = "objects" /\ Len(Slice(pendingBlock)) > 0
       THEN [scan EXCEPT !.pc = "getTransaction", !.pendingBlock = pendingBlock,
                         !.i = 1, !.fetch = "answered"]
       ELSE [scan EXCEPT !.pc = "done", !.pendingBlock = pendingBlock,
                         !.fetch = "answered"]
  /\ UNCHANGED <<height, txCount, build, flashbotsProvider, exec, stats, app>>

\* The pending block request rejects.
PendingBlockFails ==
  /\ scan.pc = "pendingBlock"
  /\ scan' = CatchScan([scan EXCEPT !.fetch = "failed"])
  /\ UNCHANGED <<height, txCount, build, flashbotsProvider, exec, stats, app>>

\* getTransaction answers for entry i.  For a router transaction the block
\* number is awaited; otherwise analyzeTransaction returns null.
GetTransactionAnswers(tx) ==
  /\ scan.pc = "getTransaction"
  /\ scan' =
       IF tx.found /\ tx.hasTo /\ IsDexTransaction(tx)
       THEN [scan EXCEPT !.pc = "getBlockNumber", !.tx = tx, !.outcome = "pending",
                         !.heightRead = -1, !.heightFailed = FALSE]
       ELSE NextEntry([scan EXCEPT !.tx = tx, !.outcome = "null", !.heightRead = -1,
                                   !.heightFailed = FALSE])
  /\ UNCHANGED <<height, txCount, build, flashbotsProvider, exec, stats, app>>

\* getTransaction rejects for entry i.
GetTransactionFails ==
  /\ scan.pc = "getTransaction"
  /\ scan' = CatchAnalyze([scan EXCEPT !.tx = NullTx, !.heightRead = -1,
                                       !.heightFailed = FALSE])
  /\ UNCHANGED <<height, txCount, build, flashbotsProvider, exec, stats, app>>

\* getBlockNumber answers for entry i: the opportunity is returned and pushed.
ScanBlockNumberAnswers ==
  /\ scan.pc = "getBlockNumber"
  /\ scan' = NextEntry(
       [scan EXCEPT !.opportunities = Append(@, Opportunity(height)),
                    !.outcome = "opportunity", !.heightRead = height,
                    !.matches = @ + 1, !.emittedAfterSkip = @ \/ scan.skipped])
  /\ UNCHANGED <<height, txCount, build, flashbotsProvider, exec, stats, app>>

\* getBlockNumber rejects for entry i.
ScanBlockNumberFails ==
  /\ scan.pc = "getBlockNumber"
  /\ scan' = CatchAnalyze([scan EXCEPT !.heightFailed = TRUE])
  /\ UNCHANGED <<height, txCount, build, flashbotsProvider, exec, stats, app>>

\* The timer callback of index.ts resumes with the list scanMEVOpportunities
\* returned: it logs a list that is not empty, and ends.  The list is handed
\* to nothing else.
CallbackLogsOpportunities ==
  /\ scan.pc = "done"
  /\ ~scan.logged
  /\ scan' = [scan EXCEPT !.logged = TRUE]
  /\ UNCHANGED <<height, txCount, build, flashbotsProvider, exec, stats, app>>

\* ------------------------------------------------------------------- stats
\* The bundle hashes getBundleStats is called with: one the relay holds a
\* bundle for, and one it has never seen.
BundleHashes == {"0xsent", "0xunknown"}

KnownHashes == {"0xsent"}

NoStats == [kind |-> "none", isSimulated |-> FALSE, isSentToMiners |-> FALSE]

NullStats == [kind |-> "null", isSimulated |-> FALSE, isSentToMiners |-> FALSE]

ThrownStats == [kind |-> "threw", isSimulated |-> FALSE, isSentToMiners |-> FALSE]

\* What flashbotsProvider.getBundleStats may answer for a hash when it answers:
\* the statistics the relay keeps for the bundle, or none for a hash it does
\* not know (getStats(bundleId) -> inclusion statistics or none).
RelayBundleStats(bundleHash) ==
  IF bundleHash \in KnownHashes
  THEN {[kind |-> "stats", isSimulated |-> s, isSentToMiners |-> m] : s, m \in BOOLEAN}
  ELSE {NullStats}

\* The locals of one getBundleStats call.  History variables: answer is what
\* the relay answered, failed says the relay call threw or rejected, logged
\* says logger.error was called.
IdleStats ==
  [pc |-> "idle", bundleHash |-> "", result |-> NoStats, answer |-> NoStats,
   failed |-> FALSE, logged |-> FALSE]

\* Mutant of CatchStats: the catch block logs and throws the error on.
CatchStatsRethrow(st) ==
  [st EXCEPT !.pc = "done", !.result = ThrownStats, !.logged = TRUE]

\* The catch block of getBundleStats: log, return null.
CatchStats(st) ==
  [st EXCEPT !.pc = "done", !.result = NullStats, !.logged = TRUE]

\* getBundleStats(bundleHash) is called on the executor index.ts created.  With
\* no relay client the member call throws at once; otherwise the relay's
\* getBundleStats is awaited.
CallGetBundleStats(bundleHash) ==
  /\ app.flashbotsExecutor = "set"
  /\ stats.pc \in {"idle", "done"}
  /\ stats' = IF flashbotsProvider = "unset"
              THEN CatchStats([IdleStats EXCEPT !.bundleHash = bundleHash,
                                                !.failed = TRUE])
              ELSE [IdleStats EXCEPT !.pc = "getBundleStats",
                                     !.bundleHash = bundleHash]
  /\ UNCHANGED <<height, txCount, build, flashbotsProvider, exec, scan, app>>

\* The relay answers: `return result`.
GetBundleStatsAnswers(answer) ==
  /\ stats.pc = "getBundleStats"
  /\ answer \in RelayBundleStats(stats.bundleHash)
  /\ stats' = [stats EXCEPT !.pc = "done", !.result = answer, !.answer = answer]
  /\ UNCHANGED <<height, txCount, build, flashbotsProvider, exec, scan, app>>

\* The relay call rejects (network error): control goes to the catch block.
GetBundleStatsFails ==
  /\ stats.pc = "getBundleStats"
  /\ stats' = CatchStats([stats EXCEPT !.failed = TRUE])
  /\ UNCHANGED <<height, txCount, build, flashbotsProvider, exec, scan, app>>

\* --------------------------------------------------------------------- app
PlaceholderKey == "your_private_key_here"

\* Values of WALLET_PRIVATE_KEY: not set (or empty), the placeholder, a string
\* that is no private key, and a private key.
PrivateKeys == {"", PlaceholderKey, "0xnotakey", "0xkey"}

\* privateKey && privateKey !== 'your_private_key_here'
KeyConfigured(privateKey) == privateKey # "" /\ privateKey # PlaceholderKey

\* new ethers.Wallet(privateKey, provider) in the executor's constructor throws
\* on a string that is no private key.
WalletThrows(privateKey) == privateKey # "0xkey"

\* The module state of index.ts: where initializeFlashbots() stands, the
\* exported flashbotsExecutor, whether setInterval was called, and counters
\* of the timer's ticks, of the scan cycles its callback began and of those
\* that have not returned yet.  startHeight is a history variable: the chain
\* height when the callback made the scanMEVOpportunities call that the model
\* follows step by step (-1: none).
IdleApp ==
  [pc |-> "start", privateKey |-> "", flashbotsExecutor |-> "null",
   timer |-> FALSE, ticks |-> 0, cycles |-> 0, running |-> 0,
   startHeight |-> -1]

\* The catch block of index.ts initializeFlashbots: log.
CatchApp(ap) == [ap EXCEPT !.pc = "failed"]

\* index.ts initializeFlashbots() up to its await: without a configured key it
\* warns and returns; otherwise it constructs the executor, which may throw,
\* assigns it and awaits its initializeFlashbots().
StartApp(privateKey) ==
  /\ app.pc = "start"
  /\ app' = IF ~KeyConfigured(privateKey)
            THEN [app EXCEPT !.pc = "disabled", !.privateKey = privateKey]
            ELSE IF WalletThrows(privateKey)
            THEN CatchApp([app EXCEPT !.privateKey = privateKey])
            ELSE [app EXCEPT !.pc = "initializing", !.privateKey = privateKey,
                             !.flashbotsExecutor = "set"]
  /\ UNCHANGED <<height, txCount, build, flashbotsProvider, exec, scan, stats>>

\* Mutant of InitializeAnswered: the timer is started whatever the outcome.
InitializeAnsweredAlways(ap, ok) ==
  IF ok THEN [ap EXCEPT !.pc = "started", !.timer = TRUE]
  ELSE CatchApp([ap EXCEPT !.timer = TRUE])

\* index.ts initializeFlashbots() after its await: setInterval is called when
\* the executor's initializeFlashbots() returned; when it threw, control is in
\* the catch block.
InitializeAnswered(ap, ok) ==
  IF ok THEN [ap EXCEPT !.pc = "started", !.timer = TRUE] ELSE CatchApp(ap)

\* The executor's initializeFlashbots() awaited by index.ts answers: the relay
\* client was created and stored, or its creation rejected and was thrown on.
AppInitializeAnswers(ok) ==
  /\ app.pc = "initializing"
  /\ flashbotsProvider' = IF ok THEN "ready" ELSE flashbotsProvider
  /\ app' = InitializeAnswered(app, ok)
  /\ UNCHANGED <<height, txCount, build, exec, scan, stats>>

\* Mutant of TimerCallback: a tick is dropped while a scan cycle is in flight.
TimerCallbackIfIdle(ap) ==
  IF ap.flashbotsExecutor = "set" /\ ap.running = 0
  THEN [ap EXCEPT !.cycles = @ + 1, !.running = @ + 1]
  ELSE ap

\* The setInterval callback up to its await: with an executor it calls
\* scanMEVOpportunities(), which begins a scan cycle.
TimerCallback(ap) ==
  IF ap.flashbotsExecutor = "set"
  THEN [ap EXCEPT !.cycles = @ + 1, !.running = @ + 1]
  ELSE ap

\* The timer fires: the event loop runs the callback, whatever else is awaited.
TimerTick ==
  /\ app.timer
  /\ app.ticks < MaxTicks
  /\ app' = TimerCallback([app EXCEPT !.ticks = @ + 1])
  /\ UNCHANGED <<height, txCount, build, flashbotsProvider, exec, scan, stats>>

\* The timer fires and its callback calls scanMEVOpportunities(): the tick whose
\* scan cycle is followed step by step in the scan locals.
CallbackCallsScan ==
  /\ app.timer
  /\ app.flashbotsExecutor = "set"
  /\ scan.pc \in {"idle", "done"}
  /\ scan' = FreshScan(scan)
  /\ app' = [app EXCEPT !.startHeight = height]
  /\ UNCHANGED <<height, txCount, build, flashbotsProvider, exec, stats>>

\* A scan cycle begun by the callback returns its list; the callback logs it.
ScanCycleReturns ==
  /\ app.running > 0
  /\ app' = [app EXCEPT !.running = @ - 1]
  /\ UNCHANGED <<height, txCount, build, flashbotsProvider, exec, scan, stats>>

\* -------------------------------------------------------------------- next
Init ==
  /\ height = 0
  /\ txCount = 0
  /\ build = [b \in Builds |-> IdleBuild]
  /\ flashbotsProvider = "unset"
  /\ exec = [b \in Builds |-> IdleExec]
  /\ scan = IdleScan
  /\ stats = IdleStats
  /\ app = IdleApp

BuildStep(b) ==
  \/ \E a \in AmountIns : CallCreateSandwichBundle(b, a)
  \/ \E fee \in FeeDatas : FrontFeeData(b, fee)
  \/ FrontNonce(b)
  \/ \E fee \in FeeDatas : BackFeeData(b, fee)
  \/ BackNonce(b)
  \/ BuildBlockNumber(b)
  \/ SignFront(b)
  \/ SignBack(b)
  \/ BuildAdapterFails(b)

ExecStep(b) ==
  \/ CallExecuteBundle(b)
  \/ SendBundleAnswers(b)
  \/ \E firstRevert \in BOOLEAN : SimulateAnswers(b, firstRevert)
  \/ SimulateAnswersError(b)
  \/ ExecRelayFails(b)

Chain == \E k \in {0, 1} : NewBlock(k)

NextBuild == Chain \/ \E b \in Builds : BuildStep(b)

\* Concurrent createSandwichBundle calls over a moving chain.
SpecBuild == Init /\ [][NextBuild]_vars

NextOneBuild ==
  \/ Chain
  \/ \E amountIn \in WideAmountIns : CallCreateSandwichBundle(1, amountIn)
  \/ BuildStep(1)

\* One createSandwichBundle call at a time over a moving chain, with more
\* values of amountIn.
SpecOneBuild == Init /\ [][NextOneBuild]_vars

NextPipeline ==
  \/ Chain
  \/ \E ok \in BOOLEAN : InitializeFlashbots(ok)
  \/ BuildStep(1)
  \/ ExecStep(1)

\* One build -> simulate -> submit pipeline over a moving chain.
SpecPipeline == Init /\ [][NextPipeline]_vars

NextHang == NextPipeline \/ BuildAdapterHangs(1) \/ ExecRelayHangs(1)

\* The pipeline with adapters that may leave a call unanswered for ever.
SpecHang == Init /\ [][NextHang]_vars

ScanStep ==
  \/ CallScanMEVOpportunities
  \/ \E pendingBlock \in PendingBlocks : PendingBlockAnswers(pendingBlock)
  \/ PendingBlockFails
  \/ \E tx \in TxDetails : GetTransactionAnswers(tx)
  \/ GetTransactionFails
  \/ ScanBlockNumberAnswers
  \/ ScanBlockNumberFails

NextScan == NewBlock(0) \/ ScanStep

\* Scan cycles over a moving chain.
SpecScan == Init /\ [][NextScan]_vars

NextFlow ==
  \/ CallScanMEVOpportunities
  \/ \E pendingBlock \in {p \in PendingBlocks : p.n <= FlowPending} :
       PendingBlockAnswers(pendingBlock)
  \/ PendingBlockFails
  \/ \E tx \in TxDetails : GetTransactionAnswers(tx)
  \/ GetTransactionFails
  \/ ScanBlockNumberAnswers
  \/ ScanBlockNumberFails
  \/ CallbackLogsOpportunities
  \/ BuildStep(1)

\* Scan cycles awaited by the timer callback, next to createSandwichBundle
\* calls on the same executor.
SpecFlow == Init /\ [][NextFlow]_vars

NextCycle ==
  \/ NewBlock(0)
  \/ \E privateKey \in PrivateKeys : StartApp(privateKey)
  \/ \E ok \in BOOLEAN : AppInitializeAnswers(ok)
  \/ CallbackCallsScan
  \/ \E pendingBlock \in {p \in PendingBlocks : p.n <= CyclePending} :
       PendingBlockAnswers(pendingBlock)
  \/ PendingBlockFails
  \/ \E tx \in TxDetails : GetTransactionAnswers(tx)
  \/ GetTransactionFails
  \/ ScanBlockNumberAnswers
  \/ ScanBlockNumberFails
  \/ CallbackLogsOpportunities

\* The scan cycles the timer callback of index.ts starts, over a moving chain.
SpecCycle == Init /\ [][NextCycle]_vars

StatsStep ==
  \/ \E bundleHash \in BundleHashes : CallGetBundleStats(bundleHash)
  \/ \E answer \in RelayBundleStats(stats.bundleHash) : GetBundleStatsAnswers(answer)
  \/ GetBundleStatsFails

AppStep ==
  \/ \E privateKey \in PrivateKeys : StartApp(privateKey)
  \/ \E ok \in BOOLEAN : AppInitializeAnswers(ok)
  \/ TimerTick
  \/ ScanCycleReturns

NextApp == AppStep \/ StatsStep

\* The process of index.ts: start-up, the scan timer, and getBundleStats calls
\* on the executor it exports.
SpecApp == Init /\ [][NextApp]_vars

\* ================================================================== claims
Built(b) == build[b].pc = "done" /\ build[b].result.kind = "bundle"

FrontOf(bundle) == bundle.transactions[1].tx

BackOf(bundle) == bundle.transactions[2].tx

Roles(transactions) == [i \in 1..Len(transactions) |-> transactions[i].tx.role]

\* C1: a bundle whose simulation reported a revert was never handed to the
\* relay's send operation, neither before nor after the simulation.
C1_NoSendOnRevert ==
  \A b \in Builds : exec[b].simulation = "revert" => ~exec[b].relay.sent

\* C2: two createSandwichBundle calls that ran concurrently while the wallet's
\* on-chain transaction count stayed unchanged returned bundles with no nonce
\* in common.
C2_ConcurrentNoncesDistinct ==
  \A b, c \in Builds :
    (b # c /\ Built(b) /\ Built(c) /\ c \in build[b].overlapped /\ txCount = 0)
    => {FrontOf(build[b].result).nonce, BackOf(build[b].result).nonce}
         \cap {FrontOf(build[c].result).nonce, BackOf(build[c].result).nonce} = {}

\* C3: in every returned bundle the back-run nonce is the front-run nonce + 1,
\* whenever the wallet's transaction count changed during the build.
C3_BackNonceIsFrontPlusOne ==
  \A b \in Builds :
    Built(b) => BackOf(build[b].result).nonce = FrontOf(build[b].result).nonce + 1

\* C4: the blockNumber of every returned bundle is h + 1 for the height h that
\* getBlockNumber answered during that same call.
C4_TargetIsHeightReadPlusOne ==
  \A b \in Builds :
    Built(b) => /\ build[b].heightRead >= 0
                /\ build[b].result.blockNumber = build[b].heightRead + 1

\* C4 witness: a bundle returned after the chain had moved, on a height other
\* than the initial one, with the chain ahead of the height read.
C4_Witness ==
  \E b \in Builds : Built(b) /\ build[b].heightRead >= 1 /\ height > build[b].heightRead

\* C5: when createSandwichBundle returns a bundle, its blockNumber is strictly
\* greater than the chain height at that moment.
C5_NotStaleAtReturn ==
  \A b \in Builds :
    Built(b) => build[b].result.blockNumber > build[b].heightAtReturn

\* C6: every returned bundle, and every list handed to the relay, is exactly
\* [front-run, back-run] in ascending nonce order, and the relay is handed the
\* bundle's list unchanged.
C6_OrderPreserved ==
  \A b \in Builds :
    /\ Built(b) =>
         /\ Roles(build[b].result.transactions) = <<"frontRun", "backRun">>
         /\ FrontOf(build[b].result).nonce < BackOf(build[b].result).nonce
    /\ exec[b].relay.sent =>
         /\ exec[b].relay.transactions = exec[b].bundleRequest.transactions
         /\ Roles(exec[b].relay.transactions) = <<"frontRun", "backRun">>
         /\ exec[b].relay.transactions[1].tx.nonce
              < exec[b].relay.transactions[2].tx.nonce

\* C6 witness: the relay has been handed a built bundle.
C6_Witness ==
  \E b \in Builds : exec[b].relay.sent /\ Len(exec[b].relay.transactions) = 2

\* C7: a finished createSandwichBundle call returned null or a bundle of
\* exactly two signed transactions with a blockNumber; it returned null
\* whenever a step of the build threw.
C7_AllOrNothing ==
  \A b \in Builds :
    build[b].pc = "done" =>
      /\ build[b].result.kind \in {"null", "bundle"}
      /\ build[b].failedAt # "none" => build[b].result = NullBundle
      /\ build[b].result.kind = "bundle" =>
           /\ Len(build[b].result.transactions) = 2
           /\ \A i \in 1..2 :
                /\ build[b].result.transactions[i].signer = "wallet"
                /\ build[b].result.transactions[i].tx.role # "none"
           /\ build[b].result.blockNumber >= 1

\* C7 witness: the second signing call failed after the first had succeeded,
\* and the call returned null.
C7_Witness ==
  \E b \in Builds : /\ build[b].pc = "done"
                    /\ build[b].failedAt = "signBack"
                    /\ build[b].result = NullBundle

\* C10: a bundle that was Submitted before its target block had passed is no
\* longer Submitted once the chain height has passed its target block.
C10_StaleOncePassed ==
  \A b \in Builds :
    (BundleState(b) = "Submitted"
       /\ exec[b].heightAtReturn <= exec[b].relay.blockNumber)
    => height <= exec[b].relay.blockNumber

ScanPcs == {"idle", "pendingBlock", "getTransaction", "getBlockNumber", "done"}

\* The latest analysis was of an available transaction addressed to a router.
RouterTx == /\ scan.tx.found
            /\ scan.tx.hasTo
            /\ ContractOf(scan.tx.to) \in {"UniswapV2Router", "UniswapV3Router"}

\* C8: a scan cycle always ends by returning its list; the list is empty when
\* the pending block request failed, and when the block of transaction
\* objects was fetched every entry of the first ScanLimit has been analysed,
\* whatever analyses threw, and every opportunity found is in the list.
C8_ScanFailuresAreLocal ==
  /\ scan.pc \in ScanPcs
  /\ scan.pc = "done" =>
       /\ scan.fetch \in {"answered", "failed"}
       /\ scan.fetch = "failed" => scan.opportunities = <<>>
       /\ (scan.fetch = "answered" /\ scan.pendingBlock.kind = "objects") =>
            /\ scan.analysed = Min(scan.pendingBlock.n, ScanLimit)
            /\ Len(scan.opportunities) = scan.matches

\* C8 witness: a cycle over more than ScanLimit entries in which an analysis
\* threw, a later entry still gave an opportunity, and all ScanLimit entries
\* were analysed.
C8_Witness ==
  /\ scan.pc = "done"
  /\ scan.pendingBlock.n > ScanLimit
  /\ scan.skipped
  /\ scan.emittedAfterSkip
  /\ scan.analysed = ScanLimit

\* C9 (as claimed): an analysed transaction gives exactly one opportunity if
\* and only if its detail is available and its recipient is a router; the
\* opportunity is a sandwich whose targetBlock is the height read for it + 1.
C9_EmitsIffRouter ==
  /\ Len(scan.opportunities) = scan.matches
  /\ scan.outcome \in {"opportunity", "null", "threw"} =>
       /\ (scan.outcome = "opportunity") <=> RouterTx
       /\ scan.outcome = "opportunity" =>
            scan.opportunities[Len(scan.opportunities)]
              = [type |-> "sandwich", profit |-> "0.1", transactions |-> <<>>,
                 targetBlock |-> scan.heightRead + 1]

\* C9 (amended): an analysed transaction gives exactly one opportunity if and
\* only if its detail is available, its recipient is a router and the height
\* request made for it is not rejected; the opportunity is a sandwich whose
\* targetBlock is the height read for it + 1.
C9_EmitsIffRouterAndHeightRead ==
  /\ Len(scan.opportunities) = scan.matches
  /\ scan.outcome \in {"opportunity", "null", "threw"} =>
       /\ (scan.outcome = "opportunity") <=> (RouterTx /\ ~scan.heightFailed)
       /\ scan.outcome = "opportunity" =>
            /\ scan.heightRead >= 0
            /\ scan.opportunities[Len(scan.opportunities)]
                 = [type |-> "sandwich", profit |-> "0.1", transactions |-> <<>>,
                    targetBlock |-> scan.heightRead + 1]

\* C9 witness: an opportunity emitted for a router address that is not spelled
\* as configured, at a height other than the initial one.
C9_Witness ==
  /\ scan.outcome = "opportunity"
  /\ scan.tx.to = "0x7A250D5630B4CF539739DF2C5DACB4C659F2488D"
  /\ scan.heightRead >= 1
  /\ scan.opportunities[Len(scan.opportunities)].targetBlock = scan.heightRead + 1

\* C11: executeBundle never hands the relay (send or simulate) a bundle whose
\* blockNumber is at or below the chain height at the time of the call.
C11_NoRelayCallOncePassed ==
  \A b \in Builds :
    exec[b].relay.sent => exec[b].relay.blockNumber > exec[b].heightAtCall

C13_NoIndefiniteHang ==
  \A b \in Builds :
    /\ build[b].pc = "hung" => ENABLED BuildStep(b)
    /\ exec[b].pc = "hung" => ENABLED ExecStep(b)

\* C14: once the scan timer is started every tick begins a scan cycle, and a
\* tick is possible whatever scan cycles or relay calls are still awaited.
C14_EveryTickStartsScan ==
  /\ app.cycles = app.ticks
  /\ app.running <= app.cycles
  /\ (app.timer /\ app.ticks < MaxTicks) => ENABLED TimerTick

\* C14 witness: two scan cycles in progress at once, begun by successive
\* ticks, while a getBundleStats call is awaiting the relay.
C14_Witness ==
  /\ app.running >= 2
  /\ app.cycles = app.ticks
  /\ stats.pc = "getBundleStats"

\* C15: the scan timer is started only with a configured private key (not
\* empty, not the placeholder) and after the relay client was created; without
\* the timer no scan cycle is begun.
C15_TimerOnlyWithKeyAndRelay ==
  /\ app.timer => /\ app.privateKey \notin {"", "your_private_key_here"}
                  /\ flashbotsProvider = "ready"
  /\ ~app.timer => app.cycles = 0 /\ app.running = 0

\* C15 witness: the timer runs and has begun a scan cycle, with a private key
\* and a relay client.
C15_Witness ==
  /\ app.timer
  /\ app.cycles >= 1
  /\ app.privateKey = "0xkey"
  /\ flashbotsProvider = "ready"

\* C16: no executeBundle call hands the relay a bundle that an earlier
\* executeBundle call had already handed to it: a bundle is sent at most once.
C16_BundleSentAtMostOnce ==
  \A b \in Builds : ~exec[b].resent

\* C17: once the timer callback has finished with a scan cycle that returned
\* an opportunity, the opportunity has been consumed by the bundle builder: a
\* createSandwichBundle call has been made.
C17_OpportunityIsBuilt ==
  (scan.logged /\ Len(scan.opportunities) > 0)
    => \E b \in Builds : build[b].pc # "idle"

\* C18: every fee value of a returned bundle is the value getFeeData answered
\* for that intent during the createSandwichBundle call that built it, and
\* each nonce comes from the transaction count read for that intent in the
\* same call.
C18_FeesAndNoncesReadInCall ==
  \A b \in Builds :
    Built(b) =>
      /\ FrontOf(build[b].result).maxFeePerGas = build[b].frontFeeRead.maxFeePerGas
      /\ FrontOf(build[b].result).maxPriorityFeePerGas
           = build[b].frontFeeRead.maxPriorityFeePerGas
      /\ BackOf(build[b].result).maxFeePerGas = build[b].backFeeRead.maxFeePerGas
      /\ BackOf(build[b].result).maxPriorityFeePerGas
           = build[b].backFeeRead.maxPriorityFeePerGas
      /\ FrontOf(build[b].result).nonce = build[b].frontCountRead
      /\ BackOf(build[b].result).nonce = build[b].backCountRead + 1

\* C19: a scan cycle holds at most ScanLimit opportunities, never more than
\* the entries it has reached among the first ScanLimit of the pending block,
\* whatever the size of the block; and the list keeps the order of the
\* entries: within a cycle the loop position never goes back, and the list
\* changes only by one opportunity appended for the entry being analysed.
C19_AtMostTenInOrder ==
  /\ [](/\ Len(scan.opportunities) <= ScanLimit
        /\ scan.analysed <= ScanLimit
        /\ scan.i <= Min(scan.pendingBlock.n, ScanLimit)
        /\ Len(scan.opportunities) <= scan.i)
  /\ [][\/ scan'.pc = "pendingBlock" /\ scan'.opportunities = <<>>
        \/ /\ scan'.i >= scan.i
           /\ \/ scan'.opportunities = scan.opportunities
              \/ /\ scan.pc = "getBlockNumber"
                 /\ Len(scan'.opportunities) = Len(scan.opportunities) + 1
                 /\ SubSeq(scan'.opportunities, 1, Len(scan.opportunities))
                      = scan.opportunities]_vars

\* C19 witness: a cycle over a pending block of more than ScanLimit entries
\* returned ScanLimit opportunities.
C19_Witness ==
  /\ scan.pc = "done"
  /\ scan.pendingBlock.n > ScanLimit
  /\ Len(scan.opportunities) = ScanLimit
  /\ scan.i = ScanLimit

\* C20: in every returned bundle both intents go to the Uniswap V2 router and
\* come from the executor's wallet, which also signed them; the front-run
\* carries the amountIn of the call (in gwei) as value and the back-run 0.
C20_SameRouterOwnWalletValues ==
  \A b \in Builds :
    Built(b) =>
      /\ FrontOf(build[b].result).to = BackOf(build[b].result).to
      /\ FrontOf(build[b].result).to = "0x7a250d5630B4cF539739dF2C5dAcb4c659F2488D"
      /\ \A i \in 1..2 :
           /\ build[b].result.transactions[i].tx.from = "wallet"
           /\ build[b].result.transactions[i].signer = "wallet"
      /\ build[b].amountIn = "1.0" => FrontOf(build[b].result).value = 1000000000
      /\ build[b].amountIn = "2.0" => FrontOf(build[b].result).value = 2000000000
      /\ build[b].amountIn \in {"1.0", "2.0"}
      /\ BackOf(build[b].result).value = 0

\* C20 witness: a bundle built for amountIn 2.0 whose front-run carries 2 ether.
C20_Witness ==
  \E b \in Builds :
    /\ Built(b)
    /\ build[b].amountIn = "2.0"
    /\ FrontOf(build[b].result).value = 2000000000
    /\ BackOf(build[b].result).value = 0

\* C22: a finished executeBundle call returned true or false; it returned true
\* exactly when the relay was handed the bundle and the simulation answered
\* without a revert, and false after a revert, after a relay call that failed
\* or answered with an error, and when no relay client was set.
C22_TrueIffSentAndSimulatedClean ==
  \A b \in Builds :
    exec[b].pc = "done" =>
      /\ exec[b].result \in {"true", "false"}
      /\ (exec[b].result = "true") <=> (exec[b].relay.sent /\ exec[b].simulation = "ok")
      /\ exec[b].simulation \in {"none", "revert", "error"} => exec[b].result = "false"
      /\ flashbotsProvider = "unset" => exec[b].result = "false" /\ ~exec[b].relay.sent

\* C22 witness: a call that returned true after both relay calls answered.
C22_Witness ==
  \E b \in Builds :
    /\ exec[b].pc = "done"
    /\ exec[b].result = "true"
    /\ exec[b].relay.sent
    /\ exec[b].simulation = "ok"

\* C21: a step of a scan cycle changes no field of the executor nor the locals
\* of any other call, and a cycle begins with the same locals whatever the
\* cycles before it left: nothing is kept from one cycle to the next.
C21_ScanKeepsNoState ==
  [][scan' # scan =>
       /\ flashbotsProvider' = flashbotsProvider
       /\ build' = build /\ exec' = exec /\ stats' = stats
       /\ scan'.pc = "pendingBlock" =>
            /\ scan'.opportunities = <<>>
            /\ scan' = [IdleScan EXCEPT !.pc = "pendingBlock"]]_vars

\* C21 witness: a cycle has returned a list that is not empty and the next
\* cycle can begin.
C21_Witness ==
  /\ scan.pc = "done"
  /\ Len(scan.opportunities) >= 2
  /\ ENABLED CallScanMEVOpportunities

\* C23: once initializeFlashbots() of index.ts has returned, an exported
\* flashbotsExecutor that is not null has its relay client set.
C23_ExecutorSetImpliesRelayReady ==
  (app.pc \in {"started", "failed", "disabled"} /\ app.flashbotsExecutor = "set")
    => flashbotsProvider = "ready"

\* C24: in a scan cycle the targetBlock values of the opportunities never
\* decrease along the list, and each is at least the chain height at the start
\* of the cycle + 1 and at most the current chain height + 1, so also at the
\* end of the cycle.
C24_TargetBlocksOrderedAndBounded ==
  (scan.pc # "idle" /\ app.startHeight >= 0) =>
    \A i \in 1..Len(scan.opportunities) :
      /\ scan.opportunities[i].targetBlock >= app.startHeight + 1
      /\ scan.opportunities[i].targetBlock <= height + 1
      /\ i > 1 => scan.opportunities[i - 1].targetBlock
                    <= scan.opportunities[i].targetBlock

\* C24 witness: a cycle returned two opportunities with different targetBlock
\* values, the first for the height at the start of the cycle and the last
\* for the height at its end.
C24_Witness ==
  /\ scan.pc = "done"
  /\ Len(scan.opportunities) = 2
  /\ scan.opportunities[1].targetBlock = app.startHeight + 1
  /\ scan.opportunities[2].targetBlock = height + 1
  /\ scan.opportunities[1].targetBlock < scan.opportunities[2].targetBlock

====
